---------------------------- MODULE Spec2Model ----------------------------
(***************************************************************************)
(* telegram-api-fetch: the TelegramBot client (src/src/client/index.ts),  *)
(* its configuration schema (src/src/client/config.ts), the webhook       *)
(* schemas (src/src/webhooks/schemas.ts) and the keyboard schemas         *)
(* (src/client/keyboards.ts).                                              *)
(*                                                                         *)
(* Strings are sequences of atoms: a token is a sequence of one-character  *)
(* atoms, so that slicing and partial writes can be told apart; a base URL *)
(* is <<scheme, "://", host>>.  JavaScript values handed in by a caller    *)
(* are records [t |-> typeof, v |-> payload].                              *)
(***************************************************************************)
EXTENDS Integers, Sequences, FiniteSets, TLC

VARIABLES
    constructed,   \* "no" | "yes" | "failed": the outcome of new TelegramBot(arg)
    ctorArg,       \* the raw configuration handed to the constructor
    config,        \* this.config of the constructed client
    issued,        \* tokens handed over so far (constructor, updateBotToken)
    lastToken,     \* the argument of the latest updateBotToken (or the constructor's token)
    masked,        \* the latest getBotTokenMasked call: the token it read, the string it returned
    calls,         \* the activations of request(), one per API call
    webhook        \* the latest schema.safeParse call: the schema, the input, the result

vars == <<constructed, ctorArg, config, issued, lastToken, masked, calls, webhook>>

-----------------------------------------------------------------------------
(* Bounds *)

MaxTokenLen == 11
MaxCalls == 2
MaxReplyDepth == 3

(* Program constants *)

DefaultTimeout == 30000
MaskMinLength == 10
MaskKeep == 3

-----------------------------------------------------------------------------
(* Strings and JavaScript values *)

Min(a, b) == IF a < b THEN a ELSE b
Max(a, b) == IF a > b THEN a ELSE b

Alphabet ==
    <<"1", "2", "3", "4", "5", "6", "7", "8", "9", ":",
      "A", "B", "C", "d", "e", "f", "G", "H", "I", "j">>

\* The token of n characters.
Tok(n) == SubSeq(Alphabet, 1, n)

\* A second family of tokens, sharing no character position with the first.
Tok2(n) == [i \in 1..n |-> Alphabet[Len(Alphabet) + 1 - i]]

Undef == [t |-> "undefined", v |-> 0]
Null == [t |-> "null", v |-> 0]
Str(s) == [t |-> "string", v |-> s]
\* The number n / d (d = 1: the integer n; d = 2: halves).
Num(n, d) == [t |-> "number", v |-> n, d |-> d]

\* String.prototype.slice(start, end) on a sequence of atoms.
slice(s, start, end) ==
    LET len == Len(s)
        from == IF start < 0 THEN Max(len + start, 0) ELSE Min(start, len)
        to == IF end < 0 THEN Max(len + end, 0) ELSE Min(end, len)
    IN  SubSeq(s, from + 1, to)

-----------------------------------------------------------------------------
(* TelegramConfigSchema *)

DefaultBaseUrl == <<"https", "://", "api.telegram.org">>

\* z.string().url(): the string parses as a URL, scheme first.
IsUrl(s) ==
    /\ Len(s) >= 3
    /\ s[1] \in {"https", "http"}
    /\ s[2] = "://"
    /\ s[3] \notin {"", " "}

\* z.string().min(1)
BotTokenOk(x) == x.t = "string" /\ Len(x.v) >= 1

\* z.string().url().default(...): undefined takes the default.
BaseUrlOk(x) == x.t = "undefined" \/ (x.t = "string" /\ IsUrl(x.v))

\* z.number().int().positive().default(30000)
TimeoutOkNoPositive(x) ==
    x.t = "undefined" \/ (x.t = "number" /\ x.v % x.d = 0)

TimeoutOk(x) ==
    x.t = "undefined" \/ (x.t = "number" /\ x.v % x.d = 0 /\ x.v > 0)

\* The fields of `raw` the schema rejects (the paths of the ZodError's issues).
Issues(raw) ==
    {f \in {"botToken", "baseUrl", "timeout"} :
        \/ f = "botToken" /\ ~BotTokenOk(raw.botToken)
        \/ f = "baseUrl" /\ ~BaseUrlOk(raw.baseUrl)
        \/ f = "timeout" /\ ~TimeoutOk(raw.timeout)}

\* The parsed value of a raw configuration the schema accepts.
ParsedAlwaysDefaults(raw) ==
    [botToken |-> raw.botToken.v,
     baseUrl |-> DefaultBaseUrl,
     timeout |-> DefaultTimeout]

Parsed(raw) ==
    [botToken |-> raw.botToken.v,
     baseUrl |-> IF raw.baseUrl.t = "undefined" THEN DefaultBaseUrl ELSE raw.baseUrl.v,
     timeout |-> IF raw.timeout.t = "undefined" THEN DefaultTimeout
                 ELSE raw.timeout.v \div raw.timeout.d]

\* The value of this.config before the constructor has run.
NoConfig == [botToken |-> <<>>, baseUrl |-> <<>>, timeout |-> 0]
NoArg == [botToken |-> Undef, baseUrl |-> Undef, timeout |-> Undef]
NoMask == [token |-> <<>>, value |-> <<>>, called |-> FALSE]


-----------------------------------------------------------------------------
(* Inputs *)

TokenLens == {0, 1, MaskMinLength - 1, MaskMinLength, MaxTokenLen}

\* The tokens a caller hands over: '' and tokens around the masking threshold.
Tokens == {Tok(n) : n \in TokenLens}

CustomBaseUrl == <<"http", "://", "localhost:8081">>
NotUrl == <<"not a url">>

\* A token the schema accepts that is made of the masking character.
StarToken == <<"*", "*">>

RawBotTokens == {Undef, Num(123, 1), Str(StarToken)} \cup {Str(t) : t \in Tokens}
RawBaseUrls == {Undef, Null, Str(CustomBaseUrl), Str(NotUrl)}
RawTimeouts == {Undef, Str(<<"5000">>), Num(5000, 1), Num(0, 1), Num(-1, 1), Num(3, 2)}

\* The configurations handed to the constructor.
RawConfigs == [botToken : RawBotTokens, baseUrl : RawBaseUrls, timeout : RawTimeouts]

-----------------------------------------------------------------------------
(* TelegramBot: construction, token rotation, masking *)

\* new TelegramBot(raw): this.config = TelegramConfigSchema.parse(raw), which
\* throws a ZodError, leaving no instance, when the schema rejects raw.
constructor(raw) ==
    /\ constructed = "no"
    /\ ctorArg' = raw
    /\ IF Issues(raw) = {}
       THEN /\ constructed' = "yes"
            /\ config' = Parsed(raw)
            /\ issued' = {raw.botToken.v}
            /\ lastToken' = raw.botToken.v
       ELSE /\ constructed' = "failed"
            /\ UNCHANGED <<config, issued, lastToken>>
    /\ UNCHANGED <<masked, calls, webhook>>

\* A write that lands in two halves: the front of the new token over the old one.
updateBotTokenTorn(newBotToken) ==
    /\ constructed = "yes"
    /\ config' = [config EXCEPT !.botToken =
            slice(newBotToken, 0, 1) \o slice(config.botToken, 1, Len(config.botToken))]
    /\ issued' = issued \cup {newBotToken}
    /\ lastToken' = newBotToken
    /\ UNCHANGED <<constructed, ctorArg, masked, calls, webhook>>

\* updateBotToken(newBotToken): this.config.botToken = newBotToken
updateBotToken(newBotToken) ==
    /\ constructed = "yes"
    /\ config' = [config EXCEPT !.botToken = newBotToken]
    /\ issued' = issued \cup {newBotToken}
    /\ lastToken' = newBotToken
    /\ UNCHANGED <<constructed, ctorArg, masked, calls, webhook>>

Stars == <<"*", "*", "*">>
Dots == <<".", ".", ".">>

\* The masking without its guard for short tokens.
maskNoGuard(token) ==
    slice(token, 0, MaskKeep) \o Dots \o slice(token, -MaskKeep, Len(token))

maskKeepsFour(token) ==
    IF Len(token) < MaskMinLength THEN Stars
    ELSE slice(token, 0, MaskKeep + 1) \o Dots \o slice(token, -MaskKeep, Len(token))

\* The string getBotTokenMasked returns for this.config.botToken = token.
mask(token) ==
    IF Len(token) < MaskMinLength THEN Stars
    ELSE slice(token, 0, MaskKeep) \o Dots \o slice(token, -MaskKeep, Len(token))

getBotTokenMasked ==
    /\ constructed = "yes"
    /\ masked' = [token |-> config.botToken, value |-> mask(config.botToken), called |-> TRUE]
    /\ UNCHANGED <<constructed, ctorArg, config, issued, lastToken, calls, webhook>>

-----------------------------------------------------------------------------
(* Parameter values and their encodings *)

Bool(b) == [t |-> "boolean", v |-> b]
Obj(id) == [t |-> "object", v |-> id]
Blob(id) == [t |-> "blob", v |-> id]
File(id) == [t |-> "file", v |-> id]
\* An object that refers to itself: JSON.stringify throws a TypeError on it.
Circular == [t |-> "circular", v |-> 0]

\* value instanceof Blob || value instanceof File (File extends Blob)
IsBlob(x) == x.t \in {"blob", "file"}

\* typeof value === 'object' for a value that is neither undefined nor null
IsObject(x) == x.t \in {"object", "circular", "blob", "file"}

\* params[key]: the value under key, undefined when the key is absent.
Get(params, key) ==
    IF \E i \in 1..Len(params) : params[i][1] = key
    THEN params[CHOOSE i \in 1..Len(params) : params[i][1] = key][2]
    ELSE Undef

\* String(value)
String(x) ==
    CASE x.t = "string" -> x.v
      [] x.t = "number" -> <<ToString(x.v)>>
      [] x.t = "boolean" -> <<IF x.v THEN "true" ELSE "false">>
      [] x.t = "undefined" -> <<"undefined">>
      [] x.t = "null" -> <<"null">>
      [] OTHER -> <<"[object Object]">>

\* JSON.stringify(value) throws on value
JsonThrows(x) == x.t = "circular"

\* JSON.stringify(value), for a value it does not throw on; a Blob has no
\* enumerable property of its own and serializes to {}.
JsonText(x) ==
    CASE x.t = "string" -> <<"\"">> \o x.v \o <<"\"">>
      [] x.t = "object" -> <<"{", x.v, "}">>
      [] IsBlob(x) -> <<"{}">>
      [] OTHER -> String(x)

RECURSIVE JsonEntries(_)
\* The members of JSON.stringify(params): a key whose value is undefined is left out.
JsonEntries(params) ==
    IF params = <<>> THEN <<>>
    ELSE LET e == Head(params)
         IN  (IF e[2].t = "undefined" THEN <<>> ELSE <<<<e[1], JsonText(e[2])>>>>)
             \o JsonEntries(Tail(params))

RECURSIVE FormEntriesKeepsNull(_)
\* A form that skips undefined values only: null is appended as its string form.
FormEntriesKeepsNull(params) ==
    IF params = <<>> THEN <<>>
    ELSE LET e == Head(params)
             part == IF IsBlob(e[2]) THEN [t |-> "file", v |-> <<e[2].v>>]
                     ELSE IF IsObject(e[2]) THEN [t |-> "text", v |-> JsonText(e[2])]
                     ELSE [t |-> "text", v |-> String(e[2])]
         IN  (IF e[2].t = "undefined" THEN <<>> ELSE <<<<e[1], part>>>>)
             \o FormEntriesKeepsNull(Tail(params))

RECURSIVE FormEntries(_)
\* The fields appended to the FormData, in the order of Object.entries(params).
FormEntries(params) ==
    IF params = <<>> THEN <<>>
    ELSE LET e == Head(params)
             part == IF IsBlob(e[2]) THEN [t |-> "file", v |-> <<e[2].v>>]
                     ELSE IF IsObject(e[2]) THEN [t |-> "text", v |-> JsonText(e[2])]
                     ELSE [t |-> "text", v |-> String(e[2])]
         IN  (IF e[2].t \in {"undefined", "null"} THEN <<>> ELSE <<<<e[1], part>>>>)
             \o FormEntries(Tail(params))

\* Errors: the class, the name and the message; a TelegramAPIError also carries
\* errorCode and description.
Err(cls, name, message) ==
    [cls |-> cls, name |-> name, message |-> message, errorCode |-> Undef, description |-> Undef]

SerializeError == Err("TypeError", "TypeError", <<"Converting circular structure to JSON">>)
NetworkError == Err("TypeError", "TypeError", <<"fetch failed">>)
AbortError == Err("DOMException", "AbortError", <<"The operation was aborted.">>)
JsonSyntaxError == Err("SyntaxError", "SyntaxError", <<"Unexpected token < in JSON">>)
BodyStreamError == Err("TypeError", "TypeError", <<"terminated">>)
NullReadError == Err("TypeError", "TypeError", <<"null is not an object (evaluating 'data.ok')">>)
UnknownError == Err("Error", "Error", <<"Unknown error occurred during API request">>)
NoError == Err("none", "none", <<>>)

\* new TelegramAPIError(errorCode, description)
TelegramAPIError(errorCode, description) ==
    [cls |-> "TelegramAPIError", name |-> "TelegramAPIError",
     message |-> <<"Telegram API Error ">> \o String(errorCode) \o <<": ">> \o String(description),
     errorCode |-> errorCode, description |-> description]

\* new Error(`Request timeout after ${timeout}ms`)
TimeoutError(timeout) ==
    Err("Error", "Error", <<"Request timeout after ", ToString(timeout), "ms">>)

\* error instanceof Error: every class above extends Error (DOMException included).
IsError(e) == e.cls \in {"Error", "TypeError", "SyntaxError", "DOMException", "TelegramAPIError"}

NoReq == [headers |-> {}, kind |-> "none", entries |-> <<>>]

\* The try block of request() up to the fetch: the headers and the body, or the
\* error JSON.stringify throws.
encode(params, isMultipart) ==
    IF isMultipart
    THEN IF \E i \in 1..Len(params) :
                /\ ~IsBlob(params[i][2]) /\ IsObject(params[i][2]) /\ JsonThrows(params[i][2])
         THEN [threw |-> TRUE, error |-> SerializeError, req |-> NoReq]
         ELSE [threw |-> FALSE, error |-> SerializeError,
               req |-> [headers |-> {}, kind |-> "multipart", entries |-> FormEntries(params)]]
    ELSE IF \E i \in 1..Len(params) : JsonThrows(params[i][2])
         THEN [threw |-> TRUE, error |-> SerializeError, req |-> NoReq]
         ELSE [threw |-> FALSE, error |-> SerializeError,
               req |-> [headers |-> {<<"Content-Type", "application/json">>},
                        kind |-> "json", entries |-> JsonEntries(params)]]

\* A catch block that wraps whatever is not a TelegramAPIError or a timeout.
catchHandlerWraps(error, timeout) ==
    IF error.cls = "TelegramAPIError" THEN error
    ELSE IF IsError(error) /\ error.name = "AbortError" THEN TimeoutError(timeout)
    ELSE UnknownError

catchHandlerNoTimeout(error, timeout) ==
    IF error.cls = "TelegramAPIError" THEN error
    ELSE IF IsError(error) THEN error
    ELSE UnknownError

\* The catch block of request(): the error it throws for the error it caught.
catchHandler(error, timeout) ==
    IF error.cls = "TelegramAPIError" THEN error
    ELSE IF IsError(error)
         THEN IF error.name = "AbortError" THEN TimeoutError(timeout) ELSE error
    ELSE UnknownError

\* A URL without the method's path segment separator.
getApiUrlNoSeparator(method) == config.baseUrl \o <<"/bot">> \o config.botToken \o <<method>>

\* A URL built from the token the client was constructed with.
getApiUrlStale(method) ==
    config.baseUrl \o <<"/bot">> \o ctorArg.botToken.v \o <<"/", method>>

\* `${this.config.baseUrl}/bot${this.config.botToken}/${method}`
getApiUrl(method) == config.baseUrl \o <<"/bot">> \o config.botToken \o <<"/", method>>

-----------------------------------------------------------------------------
(* request(): one activation per API call *)

CallIds == 1..MaxCalls

NoOutcome == [t |-> "none", v |-> 0]
Returned(v) == [t |-> "return", v |-> v]
Thrown(e) == [t |-> "throw", v |-> e]
NoData == [t |-> "none", v |-> 0]

\* pc: "idle" (not invoked), "fetching" (awaiting fetch), "reading" (awaiting
\* response.json()), "done" (returned or thrown).  timer: the setTimeout handle,
\* "none" | "armed" | "fired" | "cleared"; delay: the delay it was armed with.
\* aborted: controller.signal.aborted.  fetches: the calls of fetch so far.
\* params: the caller's parameter object; given: its content when the call was
\* made; mutated: whether the two differed when the call completed.
\* startToken: the token last handed
\* over when the call started.  verb: the HTTP method handed to fetch.
\* raised: the error fetch or response.json() rejected with.
IdleCall ==
    [pc |-> "idle", method |-> "", params |-> <<>>, given |-> <<>>, mutated |-> FALSE,
     url |-> <<>>, req |-> NoReq,
     timer |-> "none",
     delay |-> 0, aborted |-> FALSE, fetches |-> 0, data |-> NoData,
     outcome |-> NoOutcome, startToken |-> <<>>, verb |-> "", raised |-> NoError]

\* clearTimeout(timeout): a timer that has fired stays fired.
clearTimeout(timer) == IF timer = "armed" THEN "cleared" ELSE timer

\* The activation once request() has returned or thrown: its locals are gone;
\* what the caller got, and the timer and the signal, remain.
Settled(call, outcome) ==
    [call EXCEPT !.pc = "done", !.method = "", !.params = <<>>, !.given = <<>>,
                 !.mutated = (call.params # call.given), !.url = <<>>,
                 !.req = NoReq,
                 !.startToken = <<>>, !.verb = "", !.timer = clearTimeout(call.timer),
                 !.outcome = outcome]

\* An encoding that deletes the undefined members from the caller's object.
requestCompactsParams(c, method, params, isMultipart) ==
    /\ constructed = "yes"
    /\ calls[c].pc = "idle"
    /\ \A d \in CallIds : d < c => calls[d].pc # "idle"
    /\ LET url == getApiUrl(method)
           armed == [IdleCall EXCEPT !.timer = "armed", !.delay = config.timeout,
                                     !.params = SelectSeq(params, LAMBDA e : e[2].t # "undefined"),
                                     !.given = params]
           enc == encode(params, isMultipart)
       IN  calls' = [calls EXCEPT ![c] =
                IF enc.threw
                THEN Settled(armed, Thrown(catchHandler(enc.error, config.timeout)))
                ELSE [armed EXCEPT !.pc = "fetching", !.method = method,
                                   !.url = url,
                                   !.req = enc.req, !.fetches = 1,
                                   !.startToken = lastToken, !.verb = "POST"]]
    /\ UNCHANGED <<constructed, ctorArg, config, issued, lastToken, masked, webhook>>

\* request(method, params, isMultipart) up to `await fetch(...)`: the URL, the
\* controller and the timer, the encoding, the fetch.
request(c, method, params, isMultipart) ==
    /\ constructed = "yes"
    /\ calls[c].pc = "idle"
    /\ \A d \in CallIds : d < c => calls[d].pc # "idle"
    /\ LET url == getApiUrl(method)
           armed == [IdleCall EXCEPT !.timer = "armed", !.delay = config.timeout,
                                     !.params = params, !.given = params]
           enc == encode(params, isMultipart)
       IN  calls' = [calls EXCEPT ![c] =
                IF enc.threw
                THEN Settled(armed, Thrown(catchHandler(enc.error, config.timeout)))
                ELSE [armed EXCEPT !.pc = "fetching", !.method = method,
                                   !.url = url,
                                   !.req = enc.req, !.fetches = 1,
                                   !.startToken = lastToken, !.verb = "POST"]]
    /\ UNCHANGED <<constructed, ctorArg, config, issued, lastToken, masked, webhook>>

\* setWebhook(params)
setWebhook(c, params) ==
    request(c, "setWebhook", params, IsBlob(Get(params, "certificate")))

\* sendMessage(params)
sendMessage(c, params) ==
    request(c, "sendMessage", params, FALSE)

\* sendPhoto(params)
sendPhoto(c, params) ==
    request(c, "sendPhoto", params, IsBlob(Get(params, "photo")))

\* One AbortController shared by the calls of the client: the timer of one call
\* aborts every call in flight.
TimerFireSharedController(c) ==
    /\ calls[c].timer = "armed"
    /\ calls' = [d \in CallIds |->
            IF d = c THEN [calls[d] EXCEPT !.timer = "fired", !.aborted = TRUE]
            ELSE IF calls[d].pc = "fetching" THEN [calls[d] EXCEPT !.aborted = TRUE]
            ELSE calls[d]]
    /\ UNCHANGED <<constructed, ctorArg, config, issued, lastToken, masked, webhook>>

\* The timer runs out: () => controller.abort()
TimerFire(c) ==
    /\ calls[c].timer = "armed"
    /\ calls' = [calls EXCEPT ![c].timer = "fired", ![c].aborted = TRUE]
    /\ UNCHANGED <<constructed, ctorArg, config, issued, lastToken, masked, webhook>>

\* A request that leaves the timer running while the body is read.
FetchResolveKeepsTimer(c) ==
    /\ calls[c].pc = "fetching"
    /\ ~calls[c].aborted
    /\ calls' = [calls EXCEPT ![c].pc = "reading"]
    /\ UNCHANGED <<constructed, ctorArg, config, issued, lastToken, masked, webhook>>

\* fetch resolves with a response: clearTimeout(timeout), then response.json().
FetchResolve(c) ==
    /\ calls[c].pc = "fetching"
    /\ ~calls[c].aborted
    /\ calls' = [calls EXCEPT ![c].pc = "reading",
                              ![c].timer = clearTimeout(calls[c].timer)]
    /\ UNCHANGED <<constructed, ctorArg, config, issued, lastToken, masked, webhook>>

\* A catch block that leaves the timer running.
FetchRejectKeepsTimer(c, error) ==
    /\ calls[c].pc = "fetching"
    /\ ~calls[c].aborted
    /\ calls' = [calls EXCEPT ![c] =
            [Settled([calls[c] EXCEPT !.raised = error],
                     Thrown(catchHandler(error, config.timeout)))
                EXCEPT !.timer = calls[c].timer]]
    /\ UNCHANGED <<constructed, ctorArg, config, issued, lastToken, masked, webhook>>

\* A catch block that issues the request again on a network failure.
FetchRejectRetries(c, error) ==
    /\ calls[c].pc = "fetching"
    /\ ~calls[c].aborted
    /\ calls' = [calls EXCEPT ![c].fetches = calls[c].fetches + 1]
    /\ UNCHANGED <<constructed, ctorArg, config, issued, lastToken, masked, webhook>>

\* fetch rejects with a network failure: the catch block.
FetchReject(c, error) ==
    /\ calls[c].pc = "fetching"
    /\ ~calls[c].aborted
    /\ calls' = [calls EXCEPT ![c] =
            Settled([calls[c] EXCEPT !.raised = error],
                    Thrown(catchHandler(error, config.timeout)))]
    /\ UNCHANGED <<constructed, ctorArg, config, issued, lastToken, masked, webhook>>

\* A catch block that swallows the abort and returns undefined.
FetchAbortSwallowed(c) ==
    /\ calls[c].pc = "fetching"
    /\ calls[c].aborted
    /\ calls' = [calls EXCEPT ![c] =
            Settled([calls[c] EXCEPT !.raised = AbortError], Returned(Undef))]
    /\ UNCHANGED <<constructed, ctorArg, config, issued, lastToken, masked, webhook>>

\* The signal has aborted the fetch: it rejects with an AbortError.
FetchAbort(c) ==
    /\ calls[c].pc = "fetching"
    /\ calls[c].aborted
    /\ calls' = [calls EXCEPT ![c] =
            Settled([calls[c] EXCEPT !.raised = AbortError],
                    Thrown(catchHandler(AbortError, config.timeout)))]
    /\ UNCHANGED <<constructed, ctorArg, config, issued, lastToken, masked, webhook>>

\* !data.ok
Falsy(x) ==
    \/ x.t \in {"undefined", "null"}
    \/ x.t = "boolean" /\ ~x.v
    \/ x.t = "number" /\ x.v = 0
    \/ x.t = "string" /\ x.v = <<>>

unwrapTreats429AsSuccess(data, timeout) ==
    IF data.t = "null" THEN Thrown(catchHandler(NullReadError, timeout))
    ELSE IF Falsy(data.v.ok) /\ data.v.error_code # [t |-> "number", v |-> 429, d |-> 1]
    THEN Thrown(catchHandler(TelegramAPIError(data.v.error_code, data.v.description), timeout))
    ELSE Returned(data.v.result)

\* Lines 383-388 and the catch block behind them: the outcome for the parsed body.
unwrap(data, timeout) ==
    IF data.t = "null" THEN Thrown(catchHandler(NullReadError, timeout))
    ELSE IF Falsy(data.v.ok)
    THEN Thrown(catchHandler(TelegramAPIError(data.v.error_code, data.v.description), timeout))
    ELSE Returned(data.v.result)

\* response.json() resolves with data.
BodyParsed(c, data) ==
    /\ calls[c].pc = "reading"
    /\ calls' = [calls EXCEPT ![c] =
            Settled([calls[c] EXCEPT !.data = data], unwrap(data, config.timeout))]
    /\ UNCHANGED <<constructed, ctorArg, config, issued, lastToken, masked, webhook>>

\* response.json() rejects: the body is no JSON, or the stream broke.
BodyReject(c, error) ==
    /\ calls[c].pc = "reading"
    /\ calls' = [calls EXCEPT ![c] =
            Settled([calls[c] EXCEPT !.raised = error],
                    Thrown(catchHandler(error, config.timeout)))]
    /\ UNCHANGED <<constructed, ctorArg, config, issued, lastToken, masked, webhook>>

-----------------------------------------------------------------------------
(* The transport's answers and the callers' parameters *)

Envelope(ok, error_code, description, result) ==
    [t |-> "object",
     v |-> [ok |-> ok, error_code |-> error_code, description |-> description,
            result |-> result]]

OkBody(result) == Envelope(Bool(TRUE), Undef, Undef, result)
ErrBody(code, description) == Envelope(Bool(FALSE), Num(code, 1), Str(description), Undef)

Results == {Obj("message")}
ErrorCodes == {400, 429}

\* What response.json() can resolve with: the two envelopes, {} and null.
Bodies ==
    {OkBody(r) : r \in Results}
    \cup {ErrBody(code, <<"Bad Request">>) : code \in ErrorCodes}
    \cup {Envelope(Undef, Undef, Undef, Undef), Null}

\* What fetch can reject with while the signal has not aborted.
FetchErrors == {NetworkError}

\* What response.json() can reject with.
BodyErrors == {JsonSyntaxError}

ChatId == <<"chat_id", Num(123456789, 1)>>

SetWebhookParamSets ==
    {<< <<"url", Str(<<"https://example.com/webhook">>)>>, <<"certificate", File("cert.pem")>>,
        <<"drop_pending_updates", Bool(TRUE)>> >>}

\* The empty set stands for a call without parameters, or with {}.
SendMessageParamSets ==
    {<< >>,
     << ChatId, <<"text", Str(<<"Hello">>)>> >>,
     << ChatId, <<"text", Str(<<"Hello">>)>>, <<"document", Blob("doc")>> >>,
     << ChatId, <<"text", Str(<<"Hello">>)>>, <<"entities", Circular>> >>}

SendPhotoParamSets ==
    {<< ChatId, <<"photo", Blob("photo.jpg")>>, <<"caption", Undef>>,
        <<"reply_markup", Obj("inline_keyboard")>>, <<"parse_mode", Null>> >>,
     << ChatId, <<"photo", Str(<<"AgACAgIAAxkBAAIB">>)>> >>}

\* The tokens handed to updateBotToken while calls are in flight.
RotationTokens == {Tok2(MaskKeep), Tok(MaskMinLength)}

\* The configurations of the clients whose calls are followed.
StartConfigs ==
    {[botToken |-> Str(Tok(MaskMinLength)), baseUrl |-> Undef, timeout |-> Undef],
     [botToken |-> Str(Tok(MaskMinLength)), baseUrl |-> Str(CustomBaseUrl),
      timeout |-> Num(5000, 1)]}

-----------------------------------------------------------------------------
(* zod: schemas as data, and parse *)

\* A JSON object and a JSON array; fields is a function from keys to values.
Object(fields) == [t |-> "object", v |-> fields]
Array(items) == [t |-> "array", v |-> items]
\* {}
EmptyFields == [key \in {} |-> Undef]

zString == [k |-> "string", max |-> -1, url |-> FALSE]
zMax(schema, n) == [schema EXCEPT !.max = n]
zUrl(schema) == [schema EXCEPT !.url = TRUE]
zNumber == [k |-> "number", int |-> FALSE]
zInt == [k |-> "number", int |-> TRUE]
zBoolean == [k |-> "boolean"]
zLiteral(value) == [k |-> "literal", value |-> value]
zEnum(values) == [k |-> "enum", values |-> values]
zArray(element) == [k |-> "array", element |-> element]
\* An object schema that keeps the keys it does not declare.
zObjectPassthrough(shape) == [k |-> "object", shape |-> shape, unknownKeys |-> "passthrough"]
\* z.object(shape): keys the shape does not declare are stripped.
zObject(shape) == [k |-> "object", shape |-> shape, unknownKeys |-> "strip"]
zRecord(valueType) == [k |-> "record", valueType |-> valueType]
zOptional(schema) == [k |-> "optional", inner |-> schema]
zLazy(getter) == [k |-> "lazy", getter |-> getter]
zUnion(options) == [k |-> "union", options |-> options]

\* The UTF-16 code units and the UTF-8 bytes of one character; a string that a
\* length check reads is a sequence of one-character atoms.
\* "a" is a letter, "U+00E9" is e with acute, "U+20AC" the euro sign, "U+1F600"
\* an emoji outside the basic plane (a surrogate pair).
CodeUnits(ch) == IF ch = "U+1F600" THEN 2 ELSE 1
Utf8Bytes(ch) ==
    CASE ch = "U+00E9" -> 2
      [] ch = "U+20AC" -> 3
      [] ch = "U+1F600" -> 4
      [] OTHER -> 1

RECURSIVE length(_)
\* String.prototype.length: the number of UTF-16 code units.
length(s) == IF s = <<>> THEN 0 ELSE CodeUnits(Head(s)) + length(Tail(s))

RECURSIVE byteLength(_)
\* The size of the string in UTF-8.
byteLength(s) == IF s = <<>> THEN 0 ELSE Utf8Bytes(Head(s)) + byteLength(Tail(s))

\* input[key]: undefined when the key is absent.
Field(x, key) == IF key \in DOMAIN x.v THEN x.v[key] ELSE Undef

Invalid == [ok |-> FALSE, value |-> Undef]
Valid(value) == [ok |-> TRUE, value |-> value]

(* src/client/keyboards.ts *)

CallbackDataMax == 64
PlaceholderMax == 64

InlineKeyboardButtonSchema ==
    zObject([
        text |-> zString,
        url |-> zOptional(zString),
        callback_data |-> zOptional(zMax(zString, CallbackDataMax)),
        web_app |-> zOptional(zObject([url |-> zUrl(zString)])),
        login_url |-> zOptional(zObject([
            url |-> zUrl(zString),
            forward_text |-> zOptional(zString),
            bot_username |-> zOptional(zString),
            request_write_access |-> zOptional(zBoolean)])),
        switch_inline_query |-> zOptional(zString),
        switch_inline_query_current_chat |-> zOptional(zString),
        switch_inline_query_chosen_chat |-> zOptional(zObject([
            query |-> zOptional(zString),
            allow_user_chats |-> zOptional(zBoolean),
            allow_bot_chats |-> zOptional(zBoolean),
            allow_group_chats |-> zOptional(zBoolean),
            allow_channel_chats |-> zOptional(zBoolean)])),
        callback_game |-> zOptional(zObject(EmptyFields)),
        pay |-> zOptional(zBoolean)])

InlineKeyboardMarkupSchema ==
    zObject([inline_keyboard |-> zArray(zArray(InlineKeyboardButtonSchema))])

KeyboardButtonSchema ==
    zObject([
        text |-> zString,
        request_users |-> zOptional(zObject([
            request_id |-> zInt,
            user_is_bot |-> zOptional(zBoolean),
            user_is_premium |-> zOptional(zBoolean),
            max_quantity |-> zOptional(zInt),
            request_name |-> zOptional(zBoolean),
            request_username |-> zOptional(zBoolean),
            request_photo |-> zOptional(zBoolean)])),
        request_chat |-> zOptional(zObject([
            request_id |-> zInt,
            chat_is_channel |-> zBoolean,
            chat_is_forum |-> zOptional(zBoolean),
            chat_has_username |-> zOptional(zBoolean),
            chat_is_created |-> zOptional(zBoolean),
            user_administrator_rights |-> zOptional(zRecord(zBoolean)),
            bot_administrator_rights |-> zOptional(zRecord(zBoolean)),
            bot_is_member |-> zOptional(zBoolean),
            request_title |-> zOptional(zBoolean),
            request_username |-> zOptional(zBoolean),
            request_photo |-> zOptional(zBoolean)])),
        request_contact |-> zOptional(zBoolean),
        request_location |-> zOptional(zBoolean),
        request_poll |-> zOptional(zObject([
            type |-> zOptional(zEnum({<<"quiz">>, <<"regular">>}))])),
        web_app |-> zOptional(zObject([url |-> zUrl(zString)]))])

ReplyKeyboardMarkupSchema ==
    zObject([
        keyboard |-> zArray(zArray(KeyboardButtonSchema)),
        is_persistent |-> zOptional(zBoolean),
        resize_keyboard |-> zOptional(zBoolean),
        one_time_keyboard |-> zOptional(zBoolean),
        input_field_placeholder |-> zOptional(zMax(zString, PlaceholderMax)),
        selective |-> zOptional(zBoolean)])

ReplyKeyboardRemoveSchema ==
    zObject([
        remove_keyboard |-> zLiteral(Bool(TRUE)),
        selective |-> zOptional(zBoolean)])

ForceReplySchema ==
    zObject([
        force_reply |-> zLiteral(Bool(TRUE)),
        input_field_placeholder |-> zOptional(zMax(zString, PlaceholderMax)),
        selective |-> zOptional(zBoolean)])

\* A union that tries the remove-keyboard candidate first.
ReplyMarkupSchemaRemoveFirst ==
    zUnion(<<ReplyKeyboardRemoveSchema, InlineKeyboardMarkupSchema,
             ReplyKeyboardMarkupSchema, ForceReplySchema>>)

ReplyMarkupSchema ==
    zUnion(<<InlineKeyboardMarkupSchema, ReplyKeyboardMarkupSchema,
             ReplyKeyboardRemoveSchema, ForceReplySchema>>)

(* src/webhooks/schemas.ts *)

UserSchema ==
    zObject([
        id |-> zInt,
        is_bot |-> zBoolean,
        first_name |-> zString,
        last_name |-> zOptional(zString),
        username |-> zOptional(zString),
        language_code |-> zOptional(zString),
        is_premium |-> zOptional(zBoolean),
        added_to_attachment_menu |-> zOptional(zBoolean),
        can_join_groups |-> zOptional(zBoolean),
        can_read_all_group_messages |-> zOptional(zBoolean),
        supports_inline_queries |-> zOptional(zBoolean)])

ChatTypes == {<<"private">>, <<"group">>, <<"supergroup">>, <<"channel">>}

\* A chat schema whose type is any string.
ChatSchemaAnyType ==
    zObject([
        id |-> zInt,
        type |-> zString,
        title |-> zOptional(zString),
        username |-> zOptional(zString),
        first_name |-> zOptional(zString),
        last_name |-> zOptional(zString),
        is_forum |-> zOptional(zBoolean)])

ChatSchema ==
    zObject([
        id |-> zInt,
        type |-> zEnum(ChatTypes),
        title |-> zOptional(zString),
        username |-> zOptional(zString),
        first_name |-> zOptional(zString),
        last_name |-> zOptional(zString),
        is_forum |-> zOptional(zBoolean)])

PhotoSizeSchema ==
    zObject([
        file_id |-> zString,
        file_unique_id |-> zString,
        width |-> zInt,
        height |-> zInt,
        file_size |-> zOptional(zInt)])

LocationSchema ==
    zObject([
        longitude |-> zNumber,
        latitude |-> zNumber,
        horizontal_accuracy |-> zOptional(zNumber),
        live_period |-> zOptional(zInt),
        heading |-> zOptional(zInt),
        proximity_alert_radius |-> zOptional(zInt)])

MessageEntityTypes ==
    {<<"mention">>, <<"hashtag">>, <<"cashtag">>, <<"bot_command">>, <<"url">>,
     <<"email">>, <<"phone_number">>, <<"bold">>, <<"italic">>, <<"underline">>,
     <<"strikethrough">>, <<"spoiler">>, <<"code">>, <<"pre">>, <<"text_link">>,
     <<"text_mention">>, <<"custom_emoji">>}

MessageEntitySchema ==
    zObject([
        type |-> zEnum(MessageEntityTypes),
        offset |-> zInt,
        length |-> zInt,
        url |-> zOptional(zString),
        user |-> zOptional(zLazy("UserSchema")),
        language |-> zOptional(zString),
        custom_emoji_id |-> zOptional(zString)])

\* The shape of MessageSchema.
MessageShape ==
    [message_id |-> zInt,
     message_thread_id |-> zOptional(zInt),
     from |-> zOptional(UserSchema),
     sender_chat |-> zOptional(ChatSchema),
     date |-> zInt,
     chat |-> ChatSchema,
     forward_from |-> zOptional(UserSchema),
     forward_from_chat |-> zOptional(ChatSchema),
     forward_from_message_id |-> zOptional(zInt),
     forward_signature |-> zOptional(zString),
     forward_sender_name |-> zOptional(zString),
     forward_date |-> zOptional(zInt),
     is_topic_message |-> zOptional(zBoolean),
     is_automatic_forward |-> zOptional(zBoolean),
     reply_to_message |-> zOptional(zLazy("MessageSchema")),
     via_bot |-> zOptional(UserSchema),
     edit_date |-> zOptional(zInt),
     has_protected_content |-> zOptional(zBoolean),
     media_group_id |-> zOptional(zString),
     author_signature |-> zOptional(zString),
     text |-> zOptional(zString),
     entities |-> zOptional(zArray(MessageEntitySchema)),
     caption |-> zOptional(zString),
     caption_entities |-> zOptional(zArray(MessageEntitySchema)),
     photo |-> zOptional(zArray(PhotoSizeSchema)),
     location |-> zOptional(LocationSchema),
     reply_markup |-> zOptional(InlineKeyboardMarkupSchema)]

\* A message schema that takes any object for reply_to_message.
MessageSchemaReplyUnchecked ==
    zObject([MessageShape EXCEPT !.reply_to_message = zOptional(zObject(EmptyFields))])

MessageSchema == zObject(MessageShape)

\* A callback query schema in which chat_instance may be absent.
CallbackQuerySchemaChatInstanceOptional ==
    zObject([
        id |-> zString,
        from |-> UserSchema,
        message |-> zOptional(MessageSchema),
        inline_message_id |-> zOptional(zString),
        chat_instance |-> zOptional(zString),
        data |-> zOptional(zString),
        game_short_name |-> zOptional(zString)])

\* A callback query schema that insists on data.
CallbackQuerySchemaDataRequired ==
    zObject([
        id |-> zString,
        from |-> UserSchema,
        message |-> zOptional(MessageSchema),
        inline_message_id |-> zOptional(zString),
        chat_instance |-> zString,
        data |-> zString,
        game_short_name |-> zOptional(zString)])

CallbackQuerySchema ==
    zObject([
        id |-> zString,
        from |-> UserSchema,
        message |-> zOptional(MessageSchema),
        inline_message_id |-> zOptional(zString),
        chat_instance |-> zString,
        data |-> zOptional(zString),
        game_short_name |-> zOptional(zString)])

\* An update schema that does not declare callback_query.
UpdateSchemaNoCallbackQuery ==
    zObject([
        update_id |-> zInt,
        message |-> zOptional(MessageSchema),
        edited_message |-> zOptional(MessageSchema),
        channel_post |-> zOptional(MessageSchema),
        edited_channel_post |-> zOptional(MessageSchema)])

UpdateSchema ==
    zObject([
        update_id |-> zInt,
        message |-> zOptional(MessageSchema),
        edited_message |-> zOptional(MessageSchema),
        channel_post |-> zOptional(MessageSchema),
        edited_channel_post |-> zOptional(MessageSchema),
        callback_query |-> zOptional(CallbackQuerySchema)])

\* The schema a z.lazy getter returns.
Resolve(getter) ==
    CASE getter = "MessageSchema" -> MessageSchema
      [] getter = "UserSchema" -> UserSchema

RECURSIVE Parse(_, _)
\* schema.safeParse(x): whether x is accepted, and the value parse returns.
\* An object schema reads its declared keys only and builds a new object from
\* the parsed values, leaving out a key that is absent from the input and
\* parses to undefined; a union returns the result of its first option that
\* accepts x.
Parse(schema, x) ==
    CASE schema.k = "string" ->
            IF /\ x.t = "string"
               /\ schema.max >= 0 => length(x.v) <= schema.max
               /\ schema.url => IsUrl(x.v)
            THEN Valid(x) ELSE Invalid
      [] schema.k = "number" ->
            IF x.t = "number" /\ (schema.int => x.v % x.d = 0) THEN Valid(x) ELSE Invalid
      [] schema.k = "boolean" ->
            IF x.t = "boolean" THEN Valid(x) ELSE Invalid
      [] schema.k = "literal" ->
            IF x.t = schema.value.t /\ x = schema.value THEN Valid(x) ELSE Invalid
      [] schema.k = "enum" ->
            IF x.t = "string" /\ x.v \in schema.values THEN Valid(x) ELSE Invalid
      [] schema.k = "optional" ->
            IF x.t = "undefined" THEN Valid(Undef) ELSE Parse(schema.inner, x)
      [] schema.k = "lazy" -> Parse(Resolve(schema.getter), x)
      [] schema.k = "array" ->
            IF x.t # "array" THEN Invalid
            ELSE LET items == [i \in 1..Len(x.v) |-> Parse(schema.element, x.v[i])]
                 IN  IF \A i \in 1..Len(x.v) : items[i].ok
                     THEN Valid(Array([i \in 1..Len(x.v) |-> items[i].value]))
                     ELSE Invalid
      [] schema.k = "record" ->
            IF x.t # "object" THEN Invalid
            ELSE LET items == [key \in DOMAIN x.v |-> Parse(schema.valueType, x.v[key])]
                 IN  IF \A key \in DOMAIN x.v : items[key].ok
                     THEN Valid(Object([key \in DOMAIN x.v |-> items[key].value]))
                     ELSE Invalid
      [] schema.k = "object" ->
            IF x.t # "object" THEN Invalid
            ELSE LET items == [key \in DOMAIN schema.shape |->
                                    Parse(schema.shape[key], Field(x, key))]
                     keys == {key \in DOMAIN schema.shape :
                                    key \in DOMAIN x.v \/ items[key].value.t # "undefined"}
                     extra == IF schema.unknownKeys = "passthrough"
                              THEN DOMAIN x.v \ DOMAIN schema.shape ELSE {}
                 IN  IF \A key \in DOMAIN schema.shape : items[key].ok
                     THEN Valid(Object([key \in keys \cup extra |->
                                IF key \in keys THEN items[key].value ELSE x.v[key]]))
                     ELSE Invalid
      [] schema.k = "union" ->
            LET matching == {i \in 1..Len(schema.options) : Parse(schema.options[i], x).ok}
            IN  IF matching = {} THEN Invalid
                ELSE Parse(schema.options[CHOOSE i \in matching : \A j \in matching : i <= j], x)

-----------------------------------------------------------------------------
(* Webhook payloads *)

\* { ...f, ...g } and f without the keys in keys
Merge(f, g) == [key \in DOMAIN f \cup DOMAIN g |-> IF key \in DOMAIN g THEN g[key] ELSE f[key]]
Omit(f, keys) == [key \in DOMAIN f \ keys |-> f[key]]

\* The string of n times the character ch.
Repeat(ch, n) == [i \in 1..n |-> ch]

User ==
    Object([id |-> Num(987654321, 1), is_bot |-> Bool(FALSE), first_name |-> Str(<<"John">>),
            username |-> Str(<<"johndoe">>)])

\* A chat whose type is the value type; no type key when type is undefined.
Chat(type) ==
    Object(IF type.t = "undefined" THEN [id |-> Num(123456789, 1)]
           ELSE [id |-> Num(123456789, 1), type |-> type])

GoodChatTypes == {Str(type) : type \in ChatTypes}
BadChatTypes == {Str(<<"bot">>), Str(<<"Private">>), Str(<<>>), Num(1, 1), Null}

ChatInputs ==
    {Chat(type) : type \in GoodChatTypes \cup BadChatTypes \cup {Undef}}
    \cup {Object(Merge(Chat(type).v, [title |-> Str(<<"Team">>)])) :
            type \in GoodChatTypes \cup BadChatTypes}

\* The ways a message in a reply chain is made invalid.
Defects == {"chat_type", "sender_chat_type", "date", "message_id", "null", "string"}

PlainMessage ==
    [message_id |-> Num(1, 1), date |-> Num(1234567890, 1),
     chat |-> Chat(Str(<<"private">>)), from |-> User, text |-> Str(<<"Hello">>)]

\* The fields of a message with the defect.
Broken(defect) ==
    CASE defect = "chat_type" -> Merge(PlainMessage, [chat |-> Chat(Str(<<"bot">>))])
      [] defect = "sender_chat_type" ->
            Merge(PlainMessage, [sender_chat |-> Chat(Str(<<"Private">>))])
      [] defect = "date" -> Omit(PlainMessage, {"date"})
      [] defect = "message_id" -> Merge(PlainMessage, [message_id |-> Num(3, 2)])

RECURSIVE ReplyChain(_, _, _)
\* A message followed by depth messages, each the reply_to_message of the one
\* before; the message at distance badAt from the end has the defect (none has
\* when badAt is -1).
ReplyChain(depth, badAt, defect) ==
    IF depth = badAt /\ defect = "null" THEN Null
    ELSE IF depth = badAt /\ defect = "string" THEN Str(<<"Hello">>)
    ELSE LET own == IF depth = badAt THEN Broken(defect) ELSE PlainMessage
         IN  Object(IF depth = 0 THEN own
                    ELSE Merge(own, [reply_to_message |-> ReplyChain(depth - 1, badAt, defect)]))

MessageInputs ==
    {ReplyChain(depth, -1, "date") : depth \in 0..MaxReplyDepth}
    \cup {ReplyChain(depth, badAt, defect) :
            depth \in 0..MaxReplyDepth, badAt \in 0..MaxReplyDepth, defect \in Defects}

\* The messages an update carries: chains of at most one reply.
UpdateMessages ==
    {ReplyChain(depth, -1, "date") : depth \in 0..1}
    \cup {ReplyChain(depth, badAt, defect) : depth \in 0..1, badAt \in 0..1, defect \in Defects}

MessageKeys == {"message", "edited_message", "channel_post", "edited_channel_post"}

\* A key no schema declares.
UnknownKey == "sticker"

CallbackQuery ==
    [id |-> Str(<<"4382bfdwdsb323b2d9">>), from |-> User,
     chat_instance |-> Str(<<"-1234567890123456789">>), data |-> Str(<<"button_clicked">>)]

BareUpdate == [update_id |-> Num(123456789, 1)]

UpdateInputs ==
    {Object(Merge(BareUpdate, [k \in {key} |-> m])) : key \in MessageKeys, m \in UpdateMessages}
    \cup {Object(Merge(BareUpdate,
                [callback_query |-> Object(Merge(CallbackQuery, [message |-> m]))])) :
            m \in UpdateMessages}
    \cup {Object(Merge(BareUpdate, [k \in {UnknownKey} |-> m])) : m \in {ReplyChain(0, -1, "date")}}
    \cup {Object(Merge(BareUpdate,
                [message |-> Object(Merge(PlainMessage, [k \in {UnknownKey} |-> User]))]))}
    \cup {Object(BareUpdate),
          Object(Merge(BareUpdate, [callback_query |-> Object(CallbackQuery)])),
          Object(Merge(BareUpdate, [message |-> ReplyChain(0, -1, "date"),
                                    callback_query |-> Object(CallbackQuery)])),
          Object([update_id |-> Num(3, 2)]),
          Object([message |-> ReplyChain(0, -1, "date")]),
          Object(Merge(BareUpdate, [message |-> Null]))}

\* The characters callback_data is made of, and its lengths around the limit.
Characters == {"a", "U+00E9", "U+20AC", "U+1F600"}
CallbackDataLengths ==
    {0, 1, CallbackDataMax \div 4, CallbackDataMax \div 2, CallbackDataMax \div 2 + 1,
     CallbackDataMax, CallbackDataMax + 1}

Button(callback_data) ==
    Object(IF callback_data.t = "undefined" THEN [text |-> Str(<<"Click me">>)]
           ELSE [text |-> Str(<<"Click me">>), callback_data |-> callback_data])

ButtonInputs ==
    {Button(Str(Repeat(ch, n))) : ch \in Characters, n \in CallbackDataLengths}
    \cup {Button(Undef), Button(Null), Button(Num(64, 1))}

\* The values under each key of a reply markup; undefined: the key is absent.
InlineKeyboards ==
    {Undef,
     Array(<< Array(<<Button(Str(<<"o", "k">>))>>) >>),
     Array(<< Array(<<Object([callback_data |-> Str(<<"o", "k">>)])>>) >>)}
Keyboards ==
    {Undef,
     Array(<< Array(<<Object([text |-> Str(<<"Yes">>)]), Object([text |-> Str(<<"No">>)])>>) >>),
     Array(<< Str(<<"Yes">>) >>)}
Flags == {Undef, Bool(TRUE), Bool(FALSE)}

\* The object with the keys of fields whose value is not undefined.
Defined(fields) == Object([key \in {k \in DOMAIN fields : fields[k].t # "undefined"} |-> fields[key]])

ReplyMarkupInputs ==
    {Defined([inline_keyboard |-> ik, keyboard |-> kb, remove_keyboard |-> rk,
              force_reply |-> fr]) :
        ik \in InlineKeyboards, kb \in Keyboards, rk \in Flags, fr \in Flags}
    \cup {Object([k \in {"force_reply", UnknownKey} |-> Bool(TRUE)])}

\* The schemas by the names they are exported under.
SchemaOf(name) ==
    CASE name = "UserSchema" -> UserSchema
      [] name = "ChatSchema" -> ChatSchema
      [] name = "MessageSchema" -> MessageSchema
      [] name = "CallbackQuerySchema" -> CallbackQuerySchema
      [] name = "UpdateSchema" -> UpdateSchema
      [] name = "InlineKeyboardButtonSchema" -> InlineKeyboardButtonSchema
      [] name = "ReplyMarkupSchema" -> ReplyMarkupSchema

\* The entity schemas, the fields each requires, and a valid payload of each
\* with some of its optional fields.
EntityNames ==
    {"UserSchema", "ChatSchema", "MessageSchema", "CallbackQuerySchema", "UpdateSchema"}

Required(name) ==
    CASE name = "UserSchema" -> {"id", "is_bot", "first_name"}
      [] name = "ChatSchema" -> {"id", "type"}
      [] name = "MessageSchema" -> {"message_id", "date", "chat"}
      [] name = "CallbackQuerySchema" -> {"id", "from", "chat_instance"}
      [] name = "UpdateSchema" -> {"update_id"}

FullPayload(name) ==
    CASE name = "UserSchema" -> User.v
      [] name = "ChatSchema" -> Merge(Chat(Str(<<"private">>)).v, [title |-> Str(<<"Team">>)])
      [] name = "MessageSchema" ->
            Merge(PlainMessage, [message_thread_id |-> Num(7, 1), is_topic_message |-> Bool(TRUE)])
      [] name = "CallbackQuerySchema" ->
            Merge(CallbackQuery, [message |-> Object(PlainMessage),
                                  inline_message_id |-> Str(<<"AAAA">>)])
      [] name = "UpdateSchema" ->
            Merge(BareUpdate, [message |-> Object(PlainMessage),
                               callback_query |-> Object(CallbackQuery)])

\* Values of every kind: null, a numeric string, a number, a boolean, an array.
KindProbes == {Null, Str(<<"123">>), Num(5, 1), Bool(TRUE), Array(<<>>)}

\* The full payload; the full payload without one field; the required fields
\* alone; the full payload with one field replaced by a value of another
\* kind; the full payload with an undeclared key.
EntityInputs(name) ==
    LET full == FullPayload(name)
    IN  {Object(full), Object(Omit(full, DOMAIN full \ Required(name))),
         Object(Merge(full, [k \in {UnknownKey} |-> User]))}
        \cup {Object(Omit(full, {key})) : key \in DOMAIN full}
        \cup UNION {{Object(Merge(full, [k \in {key} |-> w])) :
                        w \in {probe \in KindProbes : probe.t # full[key].t}} :
                    key \in DOMAIN full}

\* The fields of an update that carry an event, and a valid value of each.
EventKeys == MessageKeys \cup {"callback_query"}
EventValue(key) == IF key = "callback_query" THEN Object(CallbackQuery) ELSE Object(PlainMessage)

\* An update with any of its event fields populated, and a callback query with
\* any of data and game_short_name.
CombinationInputs(name) ==
    CASE name = "UpdateSchema" ->
            {Object(Merge(BareUpdate, [key \in keys |-> EventValue(key)])) :
                keys \in SUBSET EventKeys}
      [] name = "CallbackQuerySchema" ->
            {Object(Merge(Omit(CallbackQuery, {"data"}), [key \in keys |-> Str(<<"tetris">>)])) :
                keys \in SUBSET {"data", "game_short_name"}}
      [] OTHER -> {}

-----------------------------------------------------------------------------
(* Parsing a webhook payload *)

\* schema.safeParse(input), for the schema exported under name.  A schema
\* holds no state, so a behaviour follows one call.
safeParseInPlace(name, schema, input) ==
    /\ webhook.schema = "none"
    /\ webhook' = [schema |-> name, given |-> input,
                   input |-> LET r == Parse(schema, input) IN IF r.ok THEN r.value ELSE input,
                   result |-> Parse(schema, input), prior |-> Invalid]
    /\ UNCHANGED <<constructed, ctorArg, config, issued, lastToken, masked, calls>>

\* given: the value handed to safeParse; input: the caller's value once the call
\* has returned; prior: the result of the call before this one.
safeParse(name, schema, input) ==
    /\ webhook.schema = "none"
    /\ webhook' = [schema |-> name, given |-> input, input |-> input,
                   result |-> Parse(schema, input), prior |-> Invalid]
    /\ UNCHANGED <<constructed, ctorArg, config, issued, lastToken, masked, calls>>

\* schema.safeParse(value), for the value the same schema has just returned.
reparse ==
    /\ webhook.schema # "none"
    /\ webhook.result.ok
    /\ ~webhook.prior.ok
    /\ webhook' = [schema |-> webhook.schema, given |-> webhook.result.value,
                   input |-> webhook.result.value,
                   result |-> Parse(SchemaOf(webhook.schema), webhook.result.value),
                   prior |-> webhook.result]
    /\ UNCHANGED <<constructed, ctorArg, config, issued, lastToken, masked, calls>>

-----------------------------------------------------------------------------
(* Specifications *)

\* No schema has parsed anything yet.
NoParse ==
    [schema |-> "none", given |-> Undef, input |-> Undef, result |-> Invalid, prior |-> Invalid]

\* A client under construction and in use without API calls.
InitClient ==
    /\ constructed = "no"
    /\ ctorArg = NoArg
    /\ config = NoConfig
    /\ issued = {}
    /\ lastToken = <<>>
    /\ masked = NoMask
    /\ calls = [c \in CallIds |-> IdleCall]
    /\ webhook = NoParse

NextClient ==
    \/ \E raw \in RawConfigs : constructor(raw)
    \/ \E t \in Tokens \cup {Tok2(MaskMinLength)} : updateBotToken(t)
    \/ getBotTokenMasked

SpecClient == InitClient /\ [][NextClient]_vars

\* The schemas of the webhook layer, each applied to its payloads.
NextWebhook ==
    \/ \E x \in ChatInputs : safeParse("ChatSchema", ChatSchema, x)
    \/ \E x \in MessageInputs : safeParse("MessageSchema", MessageSchema, x)
    \/ \E x \in UpdateInputs : safeParse("UpdateSchema", UpdateSchema, x)
    \/ \E x \in ButtonInputs :
            safeParse("InlineKeyboardButtonSchema", InlineKeyboardButtonSchema, x)
    \/ \E x \in ReplyMarkupInputs : safeParse("ReplyMarkupSchema", ReplyMarkupSchema, x)
    \/ \E name \in EntityNames :
            \E x \in EntityInputs(name) \cup CombinationInputs(name) :
                safeParse(name, SchemaOf(name), x)
    \/ reparse

SpecWebhook == InitClient /\ [][NextWebhook]_vars

\* A constructed client and its API calls.
Init ==
    /\ constructed = "yes"
    /\ ctorArg \in StartConfigs
    /\ Issues(ctorArg) = {}
    /\ config = Parsed(ctorArg)
    /\ issued = {ctorArg.botToken.v}
    /\ lastToken = ctorArg.botToken.v
    /\ masked = NoMask
    /\ calls = [c \in CallIds |-> IdleCall]
    /\ webhook = NoParse

Next ==
    \/ \E t \in RotationTokens : updateBotToken(t)
    \/ \E c \in CallIds, p \in SetWebhookParamSets : setWebhook(c, p)
    \/ \E c \in CallIds, p \in SendMessageParamSets : sendMessage(c, p)
    \/ \E c \in CallIds, p \in SendPhotoParamSets : sendPhoto(c, p)
    \/ \E c \in CallIds : TimerFire(c)
    \/ \E c \in CallIds : FetchResolve(c)
    \/ \E c \in CallIds, e \in FetchErrors : FetchReject(c, e)
    \/ \E c \in CallIds : FetchAbort(c)
    \/ \E c \in CallIds, d \in Bodies : BodyParsed(c, d)
    \/ \E c \in CallIds, e \in BodyErrors : BodyReject(c, e)

Spec == Init /\ [][Next]_vars

\* The calls under a running clock: an armed timer fires unless it is cleared
\* first, and a fetch whose signal has aborted rejects.  The transport is under no
\* obligation: it may answer, fail, or stay silent.
\* A client with one caller: one API call, with rotations of the token and reads
\* of the masked token around it.
NextFrame ==
    \/ \E t \in RotationTokens : updateBotToken(t)
    \/ getBotTokenMasked
    \/ \E p \in SetWebhookParamSets : setWebhook(1, p)
    \/ \E p \in SendMessageParamSets : sendMessage(1, p)
    \/ \E p \in SendPhotoParamSets : sendPhoto(1, p)
    \/ TimerFire(1)
    \/ FetchResolve(1)
    \/ \E e \in FetchErrors : FetchReject(1, e)
    \/ FetchAbort(1)
    \/ \E d \in Bodies : BodyParsed(1, d)
    \/ \E e \in BodyErrors : BodyReject(1, e)

SpecFrame == Init /\ [][NextFrame]_vars

SpecFair ==
    /\ Init
    /\ [][Next]_vars
    /\ \A c \in CallIds : WF_vars(TimerFire(c)) /\ WF_vars(FetchAbort(c))

-----------------------------------------------------------------------------
(* Properties of the API calls (Spec) *)

InFlight(c) == calls[c].pc \in {"fetching", "reading"}
Done(c) == calls[c].pc = "done"

\* The message of the timeout error for a timeout of ms milliseconds.
TimeoutMessage(ms) == <<"Request timeout after ", ToString(ms), "ms">>

\* C1: the timer of a call is armed with config.timeout; when it runs out before
\* a response has arrived the signal of the call is aborted, and a call whose
\* signal was aborted fails with Error('Request timeout after <timeout>ms'),
\* which is no TelegramAPIError; no call that was not aborted fails with that
\* error.
C1_TimeoutAbortsAndFails ==
    \A c \in CallIds :
        /\ calls[c].timer # "none" => calls[c].delay = config.timeout
        /\ calls[c].timer = "fired" =>
                /\ calls[c].aborted
                /\ calls[c].data = NoData
                /\ calls[c].pc \in {"fetching", "done"}
        /\ calls[c].aborted => calls[c].timer = "fired"
        /\ Done(c) /\ calls[c].aborted =>
                /\ calls[c].outcome.t = "throw"
                /\ calls[c].outcome.v.message = TimeoutMessage(config.timeout)
                /\ calls[c].outcome.v.cls = "Error"
                /\ calls[c].outcome.v.cls # "TelegramAPIError"
        /\ Done(c) /\ ~calls[c].aborted /\ calls[c].outcome.t = "throw" =>
                calls[c].outcome.v.message # TimeoutMessage(config.timeout)

C1_Witness ==
    \E c \in CallIds :
        /\ Done(c)
        /\ calls[c].timer = "fired"
        /\ calls[c].fetches = 1
        /\ calls[c].outcome.t = "throw"
        /\ calls[c].outcome.v.message = <<"Request timeout after ", "5000", "ms">>

HasBlob(params) == \E i \in 1..Len(params) : IsBlob(params[i][2])

\* C2: the body of a request is multipart form data if and only if some
\* parameter value, under any key, is a Blob or a File; otherwise it is JSON.
C2_MultipartIffAnyBlob ==
    \A c \in CallIds :
        InFlight(c) =>
            /\ calls[c].req.kind \in {"json", "multipart"}
            /\ (calls[c].req.kind = "multipart") <=> HasBlob(calls[c].params)

\* C3: a call whose response body is { ok: false, error_code: c, description: d }
\* throws a TelegramAPIError with errorCode c and description d, whatever c is;
\* a call whose response body is { ok: true, result: r } returns r.
C3_EnvelopeUnwrapped ==
    \A c \in CallIds :
        Done(c) /\ calls[c].data.t = "object" =>
            /\ calls[c].data.v.ok = Bool(FALSE) =>
                    /\ calls[c].outcome.t = "throw"
                    /\ calls[c].outcome.v.cls = "TelegramAPIError"
                    /\ calls[c].outcome.v.errorCode = calls[c].data.v.error_code
                    /\ calls[c].outcome.v.description = calls[c].data.v.description
            /\ calls[c].data.v.ok = Bool(TRUE) =>
                    calls[c].outcome = [t |-> "return", v |-> calls[c].data.v.result]

C3_Witness ==
    \E c, d \in CallIds :
        /\ Done(c) /\ Done(d)
        /\ calls[c].data = ErrBody(429, <<"Bad Request">>)
        /\ calls[c].outcome.t = "throw"
        /\ calls[c].outcome.v.errorCode = Num(429, 1)
        /\ calls[d].data = OkBody(Obj("message"))
        /\ calls[d].outcome.t = "return"

\* C4 as stated: every invocation issues exactly one request, never zero and
\* never more, whatever the parameters and the outcome.
C4_ExactlyOneRequest ==
    \A c \in CallIds : calls[c].pc # "idle" => calls[c].fetches = 1

\* C4: every invocation issues at most one request and nothing is retried; it
\* issues exactly one unless serializing the parameters throws, and then it
\* issues none and fails with the serialization error.
C4_OneRequestUnlessSerializationFails ==
    \A c \in CallIds :
        /\ calls[c].pc = "idle" => calls[c].fetches = 0
        /\ InFlight(c) => calls[c].fetches = 1
        /\ Done(c) =>
            IF calls[c].outcome.t = "throw"
               /\ calls[c].outcome.v.message = <<"Converting circular structure to JSON">>
            THEN calls[c].fetches = 0
            ELSE calls[c].fetches = 1

C4_Witness ==
    \E c, d \in CallIds :
        /\ Done(c) /\ calls[c].fetches = 0
        /\ Done(d) /\ calls[d].fetches = 1 /\ calls[d].outcome.t = "throw"
        /\ calls[d].outcome.v.message = <<"fetch failed">>

\* C5: config.botToken is the argument of the latest updateBotToken; the URL of
\* a call in flight is built from the token that was current when the call
\* started, also after later updates.
C5_TokenUpdateVisible ==
    /\ config.botToken = lastToken
    /\ \A c \in CallIds :
        InFlight(c) =>
            calls[c].url = config.baseUrl \o <<"/bot">> \o calls[c].startToken
                           \o <<"/", calls[c].method>>

C5_Witness ==
    \E c, d \in CallIds :
        /\ InFlight(c) /\ InFlight(d)
        /\ calls[c].startToken = Tok(MaskMinLength)
        /\ calls[d].startToken = Tok2(MaskKeep)
        /\ config.botToken = Tok2(MaskKeep)
        /\ calls[d].url = config.baseUrl \o <<"/bot", "j", "I", "H", "/", calls[d].method>>

\* The method name each public method hands to request(), told by the
\* parameter object it was called with.
MethodOf(params) ==
    CASE params \in SetWebhookParamSets -> "setWebhook"
      [] params \in SendMessageParamSets -> "sendMessage"
      [] params \in SendPhotoParamSets -> "sendPhoto"

\* C12: every request in flight was handed to fetch with the HTTP method POST
\* and the address <baseUrl>, '/bot', <token current when the call started>, '/',
\* <method name>, the method name being setWebhook, sendMessage or sendPhoto
\* according to the public method called; two requests of the same method under
\* the same token have the same address, whatever their encodings.
C12_PostToBotUrl ==
    \A c \in CallIds :
        InFlight(c) =>
            LET u == calls[c].url
                b == Len(config.baseUrl)
                n == Len(u)
            IN  /\ calls[c].verb = "POST"
                /\ n = b + Len(calls[c].startToken) + 3
                /\ SubSeq(u, 1, b) = config.baseUrl
                /\ u[b + 1] = "/bot"
                /\ SubSeq(u, b + 2, n - 2) = calls[c].startToken
                /\ u[n - 1] = "/"
                /\ u[n] = MethodOf(calls[c].params)
                /\ calls[c].req.kind \in {"json", "multipart"}
                /\ \A d \in CallIds :
                        /\ InFlight(d)
                        /\ calls[d].method = calls[c].method
                        /\ calls[d].startToken = calls[c].startToken
                        => calls[d].url = u

C12_Witness ==
    \E c, d \in CallIds :
        /\ InFlight(c) /\ InFlight(d)
        /\ calls[c].req.kind = "json" /\ calls[d].req.kind = "multipart"
        /\ calls[c].verb = "POST" /\ calls[d].verb = "POST"
        /\ calls[c].url = calls[d].url
        /\ calls[c].url = <<"http", "://", "localhost:8081", "/bot">> \o Tok(MaskMinLength)
                          \o <<"/", "sendPhoto">>

\* C13: the signal of a call is aborted by the call's own timer only, and the
\* step that aborts the signal of one call, or that completes a call whose
\* signal was aborted, leaves every other call as it was: its timer, its
\* signal, its position and its outcome; a call fails with the timeout error
\* only when its own signal was aborted.
C13_TimeoutsAreIndependent ==
    [][\A c \in CallIds :
        /\ calls'[c].aborted /\ ~calls[c].aborted =>
                /\ calls[c].timer = "armed" /\ calls'[c].timer = "fired"
                /\ \A d \in CallIds \ {c} : calls'[d] = calls[d]
        /\ calls'[c].pc = "done" /\ calls[c].pc # "done" /\ calls[c].aborted =>
                \A d \in CallIds \ {c} : calls'[d] = calls[d]
        /\ /\ calls'[c].pc = "done" /\ calls[c].pc # "done"
           /\ calls'[c].outcome.t = "throw"
           /\ calls'[c].outcome.v.message = TimeoutMessage(config.timeout)
           => calls[c].aborted
      ]_vars

\* The later call has timed out while the earlier one is still in flight, its
\* timer armed and its signal untouched.
C13_Witness ==
    \E c, d \in CallIds :
        /\ c < d
        /\ Done(d) /\ calls[d].aborted
        /\ calls[d].outcome.t = "throw"
        /\ calls[d].outcome.v.message = TimeoutMessage(config.timeout)
        /\ InFlight(c) /\ ~calls[c].aborted /\ calls[c].timer = "armed"

\* C14: the timer of a completed call is never armed (it was cleared, or it
\* had fired before the call completed), and no step changes the timer or the
\* abort signal of a call that has completed.
C14_TimerClearedOnCompletion ==
    /\ [](\A c \in CallIds : Done(c) => calls[c].timer \in {"cleared", "fired"})
    /\ [][\A c \in CallIds :
            Done(c) => /\ calls'[c].aborted = calls[c].aborted
                       /\ calls'[c].timer = calls[c].timer]_vars

\* One call has returned and one has thrown, both with the timer cleared and
\* the signal not aborted.
C14_Witness ==
    \E c, d \in CallIds :
        /\ Done(c) /\ calls[c].outcome.t = "return"
        /\ calls[c].timer = "cleared" /\ ~calls[c].aborted
        /\ Done(d) /\ calls[d].outcome.t = "throw"
        /\ calls[d].timer = "cleared" /\ ~calls[d].aborted

\* C15: a call whose fetch or response.json() rejected with an error other than
\* the abort of the call's own timeout has thrown that very error: the same
\* class, name and message, no TelegramAPIError and no timeout error.
C15_TransportErrorsPassThrough ==
    \A c \in CallIds :
        Done(c) /\ calls[c].raised # NoError /\ calls[c].raised.name # "AbortError" =>
            /\ calls[c].raised \in FetchErrors \cup BodyErrors
            /\ calls[c].outcome = Thrown(calls[c].raised)
            /\ calls[c].outcome.v.cls # "TelegramAPIError"
            /\ calls[c].outcome.v.message # TimeoutMessage(config.timeout)
            /\ ~calls[c].aborted

\* One call has failed on the connection and one on a body that is no JSON.
C15_Witness ==
    \E c, d \in CallIds :
        /\ Done(c) /\ calls[c].raised = NetworkError /\ calls[c].data = NoData
        /\ calls[c].outcome.t = "throw" /\ calls[c].outcome.v.message = <<"fetch failed">>
        /\ Done(d) /\ calls[d].raised = JsonSyntaxError
        /\ calls[d].outcome.t = "throw" /\ calls[d].outcome.v.cls = "SyntaxError"

\* The token inside a URL of the form <baseUrl>/bot<token>/<method>.
UrlToken(url) == SubSeq(url, Len(config.baseUrl) + 2, Len(url) - 2)

\* C6: the token in the URL of every call in flight, and the token the client
\* holds, is one of the whole tokens handed to the constructor or to
\* updateBotToken.
C6_TokenIsWhole ==
    /\ config.botToken \in issued
    /\ \A c \in CallIds : InFlight(c) => UrlToken(calls[c].url) \in issued

C6_Witness ==
    \E c, d \in CallIds :
        /\ InFlight(c) /\ InFlight(d)
        /\ UrlToken(calls[c].url) = Tok2(MaskKeep)
        /\ UrlToken(calls[d].url) = Tok(MaskMinLength)
        /\ config.botToken = Tok(MaskMinLength)
        /\ issued = {Tok(MaskMinLength), Tok2(MaskKeep)}

-----------------------------------------------------------------------------
(* Properties of the client (SpecClient) *)

\* C7: the configuration of a constructed client satisfies its schema in every
\* state: botToken is not empty, baseUrl is URL-shaped, timeout is a positive
\* integer.
C7_ConfigSatisfiesSchema ==
    constructed = "yes" =>
        /\ Len(config.botToken) >= 1
        /\ IsUrl(config.baseUrl)
        /\ config.timeout \in Nat \ {0}

\* A raw configuration that is invalid: botToken missing, no string or empty;
\* baseUrl given and not a URL-shaped string; timeout given and not a positive
\* integer.
InvalidArg(raw) ==
    \/ raw.botToken.t # "string"
    \/ raw.botToken.v = <<>>
    \/ raw.baseUrl.t # "undefined" /\ ~(raw.baseUrl.t = "string" /\ IsUrl(raw.baseUrl.v))
    \/ raw.timeout.t # "undefined"
        /\ ~(raw.timeout.t = "number" /\ raw.timeout.v % raw.timeout.d = 0
                /\ raw.timeout.v \div raw.timeout.d >= 1)

\* C8: the constructor, given an invalid configuration, fails and leaves no
\* client: no configuration, valid in part or not, is kept.
C8_InvalidConfigRejected ==
    constructed # "no" /\ InvalidArg(ctorArg) =>
        /\ constructed = "failed"
        /\ config = NoConfig
        /\ issued = {}

C8_Witness ==
    /\ constructed = "failed"
    /\ ctorArg.botToken = Str(Tok(MaskMinLength))
    /\ ctorArg.baseUrl = Undef
    /\ ctorArg.timeout = Num(0, 1)

\* C9: a client constructed from a botToken alone has that token, baseUrl
\* 'https://api.telegram.org' and timeout 30000; a baseUrl or a timeout given
\* explicitly is kept.
C9_DefaultsApplied ==
    constructed = "yes" =>
        /\ issued = {ctorArg.botToken.v} => config.botToken = ctorArg.botToken.v
        /\ config.baseUrl = IF ctorArg.baseUrl.t = "undefined"
                            THEN <<"https", "://", "api.telegram.org">>
                            ELSE ctorArg.baseUrl.v
        /\ config.timeout = IF ctorArg.timeout.t = "undefined" THEN 30000
                            ELSE ctorArg.timeout.v \div ctorArg.timeout.d

C9_Witness ==
    /\ constructed = "yes"
    /\ ctorArg = [botToken |-> Str(Tok(MaxTokenLen)), baseUrl |-> Undef, timeout |-> Undef]
    /\ config = [botToken |-> Tok(MaxTokenLen),
                 baseUrl |-> <<"https", "://", "api.telegram.org">>, timeout |-> 30000]

\* C10 as stated: for every token, getBotTokenMasked returns the first 3
\* characters of the token, '...', and its last 3 characters.
C10_MaskFirst3Last3 ==
    masked.called =>
        masked.value = SubSeq(masked.token, 1, Min(3, Len(masked.token)))
                       \o <<".", ".", ".">>
                       \o SubSeq(masked.token, Max(1, Len(masked.token) - 2), Len(masked.token))

\* C10: for every token of 10 characters or more, getBotTokenMasked returns the
\* first 3 characters of the token, '...', and its last 3 characters; for every
\* shorter token it returns '***'.
C10_MaskFirst3Last3OrStars ==
    masked.called =>
        IF Len(masked.token) >= 10
        THEN masked.value = SubSeq(masked.token, 1, 3) \o <<".", ".", ".">>
                            \o SubSeq(masked.token, Len(masked.token) - 2, Len(masked.token))
        ELSE masked.value = <<"*", "*", "*">>

C10_Witness ==
    /\ masked.called
    /\ masked.token = Tok(MaskMinLength)
    /\ masked.value = <<"1", "2", "3", ".", ".", ".", "8", "9", ":">>
    /\ config.botToken = Tok(1)

\* String.prototype.includes: sub occurs in s as a run of consecutive characters.
Contains(s, sub) ==
    \E i \in 0..(Len(s) - Len(sub)) : SubSeq(s, i + 1, i + Len(sub)) = sub

\* The token with every character but its first three and last three replaced.
Middle(token) ==
    [i \in 1..Len(token) |->
        IF i <= MaskKeep \/ i > Len(token) - MaskKeep THEN token[i] ELSE "x"]

\* The tokens below the masking threshold, the empty one included.
ShortTokens == {t \in Tokens \cup {StarToken, <<"x">>} : Len(t) < MaskMinLength}

\* C11 as stated: the masked string never contains the token it masks.
C11_MaskNeverContainsToken ==
    masked.called => ~Contains(masked.value, masked.token)

\* C11, amended: the masked string contains the token exactly when the token
\* is a run of at most three '*' (the empty token included); and it shows nothing
\* of the token but the first three and the last three characters: a token of
\* ten characters or more masks to the same string as the token with every
\* other character replaced, and all shorter tokens mask to one string.
C11_MaskHidesToken ==
    masked.called =>
        /\ Contains(masked.value, masked.token)
                <=> /\ Len(masked.token) <= MaskKeep
                    /\ \A i \in 1..Len(masked.token) : masked.token[i] = "*"
        /\ Len(masked.token) >= MaskMinLength => mask(Middle(masked.token)) = masked.value
        /\ Len(masked.token) < MaskMinLength => \A u \in ShortTokens : mask(u) = masked.value

C11_Witness ==
    /\ masked.called
    /\ Len(masked.token) >= MaskMinLength
    /\ Middle(masked.token) # masked.token
    /\ ~Contains(masked.value, masked.token)
    /\ \E i \in 1..MaskKeep : Contains(masked.value, <<masked.token[i]>>)

-----------------------------------------------------------------------------
(* Properties of the webhook schemas (SpecWebhook) *)

RECURSIVE Replies(_)
\* The number of messages below m in its reply chain.
Replies(m) ==
    IF m.t = "object" /\ "reply_to_message" \in DOMAIN m.v
    THEN 1 + Replies(m.v.reply_to_message) ELSE 0

RECURSIVE ChatsOfMessage(_)
\* The chats of a message: chat, sender_chat, forward_from_chat, and those of
\* the messages it replies to.
ChatsOfMessage(m) ==
    IF m.t # "object" THEN {}
    ELSE {m.v[key] : key \in {"chat", "sender_chat", "forward_from_chat"} \cap DOMAIN m.v}
         \cup (IF "reply_to_message" \in DOMAIN m.v
               THEN ChatsOfMessage(m.v.reply_to_message) ELSE {})

\* The chats of an update: those of its messages and of its callback query's message.
ChatsOfUpdate(u) ==
    IF u.t # "object" THEN {}
    ELSE UNION {ChatsOfMessage(u.v[key]) : key \in MessageKeys \cap DOMAIN u.v}
         \cup (IF "callback_query" \in DOMAIN u.v /\ u.v.callback_query.t = "object"
               THEN ChatsOfMessage(Field(u.v.callback_query, "message")) ELSE {})

\* The chats of the payload handed to the schema.
ChatsOfInput ==
    CASE webhook.schema = "ChatSchema" -> {webhook.input}
      [] webhook.schema = "MessageSchema" -> ChatsOfMessage(webhook.input)
      [] webhook.schema = "UpdateSchema" -> ChatsOfUpdate(webhook.input)
      [] OTHER -> {}

\* The type of the chat is none of private, group, supergroup, channel.
TypeOutside(chat) ==
    /\ chat.t = "object"
    /\ Field(chat, "type").t = "string" => Field(chat, "type").v \notin ChatTypes

\* C16: a payload handed to ChatSchema, MessageSchema or UpdateSchema in which
\* some chat, at any nesting level, has a type other than private, group,
\* supergroup or channel is rejected.
C16_ChatTypeIsClosed ==
    (\E chat \in ChatsOfInput : TypeOutside(chat)) => ~webhook.result.ok

\* An update whose callback query's message replies to a message of a chat of
\* type 'bot'.
C16_Witness ==
    /\ webhook.schema = "UpdateSchema"
    /\ Field(webhook.input, "callback_query").t = "object"
    /\ LET m == Field(webhook.input.v.callback_query, "message")
       IN  /\ Replies(m) = 1
           /\ \E chat \in ChatsOfMessage(m.v.reply_to_message) :
                    Field(chat, "type") = Str(<<"bot">>)
           /\ \A chat \in ChatsOfMessage(Object(Omit(m.v, {"reply_to_message"}))) :
                    ~TypeOutside(chat)
    /\ ~webhook.result.ok

\* C17 as stated: callback_data is accepted exactly when its encoded size is
\* at most 64 bytes.
C17_CallbackDataByteLimit ==
    /\ webhook.schema = "InlineKeyboardButtonSchema"
    /\ Field(webhook.input, "callback_data").t = "string"
    => (webhook.result.ok <=> byteLength(webhook.input.v.callback_data.v) <= CallbackDataMax)

RECURSIVE ValidChain(_)
\* The message is valid with its reply_to_message set aside, and the message
\* it replies to, when it has one, is a valid chain.
ValidChain(m) ==
    /\ m.t = "object"
    /\ Parse(MessageSchema, Object(Omit(m.v, {"reply_to_message"}))).ok
    /\ "reply_to_message" \in DOMAIN m.v => ValidChain(m.v.reply_to_message)

\* C18: MessageSchema answers for every reply chain, and accepts it exactly
\* when every message of the chain is valid on its own fields: one invalid
\* message, at any depth, fails the whole payload.
C18_ReplyChainValidatedAtEveryDepth ==
    webhook.schema = "MessageSchema" =>
        /\ webhook.result.ok \in BOOLEAN
        /\ webhook.result.ok <=> ValidChain(webhook.input)

\* The longest valid chain is accepted.
C18_Witness ==
    /\ webhook.schema = "MessageSchema"
    /\ Replies(webhook.input) = MaxReplyDepth
    /\ ValidChain(webhook.input)
    /\ webhook.result.ok
    /\ Replies(webhook.result.value) = MaxReplyDepth

\* The keys the four reply markups declare.
MarkupKeys ==
    {"inline_keyboard", "keyboard", "is_persistent", "resize_keyboard", "one_time_keyboard",
     "input_field_placeholder", "selective", "remove_keyboard", "force_reply"}

\* C19: a payload InlineKeyboardMarkupSchema accepts parses to an inline
\* keyboard markup, with inline_keyboard and no key of the other three; a
\* payload with remove_keyboard: true and neither inline_keyboard nor keyboard
\* parses to a ReplyKeyboardRemove; a payload that none of the four schemas
\* accepts is rejected.
C19_UnionTakesFirstMatch ==
    webhook.schema = "ReplyMarkupSchema" =>
        LET x == webhook.input
            r == webhook.result
        IN  /\ Parse(InlineKeyboardMarkupSchema, x).ok =>
                    /\ r.ok
                    /\ r.value = Parse(InlineKeyboardMarkupSchema, x).value
                    /\ DOMAIN r.value.v = {"inline_keyboard"}
                    /\ r.value.v.inline_keyboard = x.v.inline_keyboard
            /\ /\ Field(x, "remove_keyboard") = Bool(TRUE)
               /\ DOMAIN x.v \cap {"inline_keyboard", "keyboard"} = {}
               => /\ r.ok
                  /\ DOMAIN r.value.v \cap (MarkupKeys \ {"selective"}) = {"remove_keyboard"}
                  /\ r.value.v.remove_keyboard = Bool(TRUE)
            /\ (\A schema \in {InlineKeyboardMarkupSchema, ReplyKeyboardMarkupSchema,
                                ReplyKeyboardRemoveSchema, ForceReplySchema} :
                    ~Parse(schema, x).ok) => ~r.ok

\* A payload that three of the candidates accept parses to the inline keyboard.
C19_Witness ==
    /\ webhook.schema = "ReplyMarkupSchema"
    /\ Parse(InlineKeyboardMarkupSchema, webhook.input).ok
    /\ Parse(ReplyKeyboardMarkupSchema, webhook.input).ok
    /\ Parse(ReplyKeyboardRemoveSchema, webhook.input).ok
    /\ webhook.result.ok
    /\ DOMAIN webhook.result.value.v = {"inline_keyboard"}

RECURSIVE Without(_, _)
\* The value x with the key removed from every object in it.
Without(x, key) ==
    CASE x.t = "object" -> Object([k \in DOMAIN x.v \ {key} |-> Without(x.v[k], key)])
      [] x.t = "array" -> Array([i \in 1..Len(x.v) |-> Without(x.v[i], key)])
      [] OTHER -> x

\* C20: the value UpdateSchema returns for a payload it accepts is the payload
\* without its undeclared keys: every declared field, at every nesting level,
\* has the value it has in the payload, and a field absent from the payload is
\* absent from the value.
C20_ParseReturnsInput ==
    webhook.schema = "UpdateSchema" /\ webhook.result.ok =>
        /\ webhook.result.value = Without(webhook.input, UnknownKey)
        /\ \A key \in MessageKeys \cup {"callback_query"} :
                key \in DOMAIN webhook.result.value.v <=> key \in DOMAIN webhook.input.v

\* An accepted update with a callback query whose message is a reply, and no
\* message of its own.
C20_Witness ==
    /\ webhook.schema = "UpdateSchema"
    /\ webhook.result.ok
    /\ "callback_query" \in DOMAIN webhook.input.v
    /\ Replies(Field(webhook.input.v.callback_query, "message")) = 1
    /\ webhook.result.value.v.callback_query.v.message.v.reply_to_message.v.chat
            = Chat(Str(<<"private">>))
    /\ "message" \notin DOMAIN webhook.result.value.v

\* C21: an entity schema rejects a payload that lacks a required field, and
\* a payload in which a declared field holds a value of another kind than the
\* schema declares (null for an optional field, a numeric string for an
\* integer: nothing is coerced); it accepts a payload that has the required
\* fields and lacks nothing but optional ones.
C21_RequiredOptionalNoCoercion ==
    webhook.schema \in EntityNames /\ webhook.given.t = "object" =>
        LET x == webhook.given.v
            full == FullPayload(webhook.schema)
        IN  /\ Required(webhook.schema) \ DOMAIN x # {} => ~webhook.result.ok
            /\ (\E key \in DOMAIN x \cap DOMAIN full : x[key].t # full[key].t)
                    => ~webhook.result.ok
            /\ /\ Required(webhook.schema) \subseteq DOMAIN x
               /\ DOMAIN x \subseteq DOMAIN full \cup {UnknownKey}
               /\ \A key \in DOMAIN x \cap DOMAIN full : x[key] = full[key]
               => webhook.result.ok

\* A message whose optional text is null is rejected.
C21_Witness ==
    /\ webhook.schema = "MessageSchema"
    /\ webhook.given.t = "object"
    /\ Required("MessageSchema") \subseteq DOMAIN webhook.given.v
    /\ Field(webhook.given, "text") = Null
    /\ \A key \in DOMAIN webhook.given.v \ {"text"} :
            webhook.given.v[key] = FullPayload("MessageSchema")[key]
    /\ ~webhook.result.ok

C23_NoMutualExclusivity ==
    /\ /\ webhook.schema = "UpdateSchema"
       /\ webhook.given.t = "object"
       /\ Field(webhook.given, "update_id") = BareUpdate.update_id
       /\ \A key \in DOMAIN webhook.given.v \ {"update_id"} :
                key \in EventKeys /\ webhook.given.v[key] = EventValue(key)
       => /\ webhook.result.ok
          /\ DOMAIN webhook.result.value.v = DOMAIN webhook.given.v
    /\ /\ webhook.schema = "CallbackQuerySchema"
       /\ webhook.given.t = "object"
       /\ DOMAIN webhook.given.v \ {"data", "game_short_name"} = Required("CallbackQuerySchema")
       /\ \A key \in DOMAIN webhook.given.v :
                webhook.given.v[key].t = FullPayload("CallbackQuerySchema")[
                    IF key = "game_short_name" THEN "data" ELSE key].t
       /\ Parse(UserSchema, webhook.given.v.from).ok
       => webhook.result.ok

\* An update with all five event fields is accepted.
C23_Witness ==
    /\ webhook.schema = "UpdateSchema"
    /\ webhook.given.t = "object"
    /\ DOMAIN webhook.given.v = EventKeys \cup {"update_id"}
    /\ webhook.result.ok
    /\ DOMAIN webhook.result.value.v = EventKeys \cup {"update_id"}

\* C30: the value a schema returns for a payload it accepts has no undeclared
\* key, and the same schema accepts that value and returns it as it is.
C30_ParseIsIdempotent ==
    /\ webhook.result.ok =>
            /\ Without(webhook.result.value, UnknownKey) = webhook.result.value
            /\ webhook.schema = "ReplyMarkupSchema" =>
                    DOMAIN webhook.result.value.v \subseteq MarkupKeys
    /\ webhook.prior.ok =>
            /\ webhook.given = webhook.prior.value
            /\ webhook.result.ok
            /\ webhook.result.value = webhook.prior.value

\* A reply markup parsed for the second time: the first value had dropped the
\* keys of the other candidates.
C30_Witness ==
    /\ webhook.schema = "ReplyMarkupSchema"
    /\ webhook.prior.ok
    /\ webhook.result = webhook.prior
    /\ DOMAIN webhook.result.value.v = {"inline_keyboard"}

-----------------------------------------------------------------------------
(* Outcomes of the API calls (Spec) *)

\* The call threw a TelegramAPIError.
ThrewApiError(c) ==
    /\ Done(c)
    /\ calls[c].outcome.t = "throw"
    /\ calls[c].outcome.v.cls = "TelegramAPIError"

\* The call threw the timeout error.
ThrewTimeout(c) ==
    /\ Done(c)
    /\ calls[c].outcome.t = "throw"
    /\ calls[c].outcome.v.cls = "Error"
    /\ calls[c].outcome.v.message = TimeoutMessage(calls[c].delay)

\* The body received is an envelope with ok equal to the boolean b.
OkIs(c, b) ==
    /\ calls[c].data.t = "object"
    /\ calls[c].data.v.ok.t = "boolean"
    /\ calls[c].data.v.ok.v = b

\* C25: a TelegramAPIError is thrown only for a body with ok equal to false,
\* and its errorCode is a number and its description a string, both taken from
\* the body.
C25_ApiErrorIsWellFormed ==
    \A c \in CallIds :
        ThrewApiError(c) =>
            /\ OkIs(c, FALSE)
            /\ calls[c].outcome.v.errorCode.t = "number"
            /\ calls[c].outcome.v.description.t = "string"
            /\ calls[c].outcome.v.errorCode = calls[c].data.v.error_code
            /\ calls[c].outcome.v.description = calls[c].data.v.description

\* C26: a completed call has one outcome, a returned result or one thrown
\* error, which stays what it is; a body with ok true gives the result, a
\* returned result comes from a body received, and a call whose timer fired
\* throws.
C26_Outcome ==
    \A c \in CallIds :
        /\ Done(c) <=> calls[c].outcome.t \in {"return", "throw"}
        /\ ~Done(c) => calls[c].outcome = NoOutcome
        /\ Done(c) /\ calls[c].outcome.t = "throw" =>
                /\ IsError(calls[c].outcome.v)
                /\ calls[c].outcome.v.cls = "TelegramAPIError" => ~ThrewTimeout(c)
        /\ Done(c) /\ OkIs(c, TRUE) => calls[c].outcome = Returned(calls[c].data.v.result)
        /\ Done(c) /\ calls[c].outcome.t = "return" =>
                /\ calls[c].data.t = "object"
                /\ ~Falsy(calls[c].data.v.ok)
                /\ calls[c].outcome.v = calls[c].data.v.result
                /\ calls[c].raised = NoError
        /\ Done(c) /\ calls[c].timer = "fired" =>
                /\ calls[c].data = NoData
                /\ ThrewTimeout(c)

C26_OutcomeIsFinal ==
    [][\A c \in CallIds : Done(c) => Done(c)' /\ calls'[c].outcome = calls[c].outcome]_vars

C26_ExactlyOneOutcome == []C26_Outcome /\ C26_OutcomeIsFinal

\* Both calls are over, one with the result of a body with ok true and one with
\* the timeout error after its timer fired.
C26_Witness ==
    /\ \E c \in CallIds :
            /\ Done(c) /\ OkIs(c, TRUE) /\ calls[c].outcome.t = "return"
    /\ \E c \in CallIds :
            /\ Done(c) /\ calls[c].timer = "fired" /\ ThrewTimeout(c)

\* The call got a response: its body was parsed or failed to parse.
GotResponse(c) ==
    \/ calls[c].pc = "reading"
    \/ calls[c].data # NoData
    \/ calls[c].raised \in BodyErrors

\* C29: from the moment fetch resolves the timer is cleared and stays so: the
\* signal is not aborted while the body is read or afterwards, and the call
\* does not throw the timeout error.
C29_TimerClearedBeforeBodyRead ==
    \A c \in CallIds :
        GotResponse(c) =>
            /\ calls[c].timer = "cleared"
            /\ ~calls[c].aborted
            /\ ~ThrewTimeout(c)

\* A call that failed while its body was read: the timer had been cleared and
\* the error is the body's.
C29_Witness ==
    \E c \in CallIds :
        /\ Done(c)
        /\ calls[c].raised \in BodyErrors
        /\ calls[c].timer = "cleared"
        /\ calls[c].outcome = Thrown(calls[c].raised)


\* C24: every call in flight completes.
C24_EveryCallCompletes ==
    \A c \in CallIds : InFlight(c) ~> Done(c)


-----------------------------------------------------------------------------
(* Encoding and frame of the API calls (Spec) *)

\* The parameter is neither undefined nor null.
IsGiven(e) == e[2].t \notin {"undefined", "null"}

\* The parameter is not undefined.
IsDefined(e) == e[2].t # "undefined"

\* The form field for a parameter value.
FormValue(x) ==
    IF IsBlob(x) THEN [t |-> "file", v |-> <<x.v>>]
    ELSE IF x.t \in {"object", "circular"} THEN [t |-> "text", v |-> JsonText(x)]
    ELSE [t |-> "text", v |-> String(x)]

\* C27: a multipart request has no Content-Type header of its own and one form
\* field per parameter that is neither undefined nor null, in the order of the
\* parameters: the binary for a Blob or File, the JSON text for another object,
\* the string form for the rest.  A JSON request has the header Content-Type:
\* application/json and the JSON text of the parameter object as its body, {}
\* when there are no parameters.
C27_Encoding ==
    \A c \in CallIds :
        InFlight(c) =>
            LET r == calls[c].req
                kept == SelectSeq(calls[c].params, IsGiven)
                sent == SelectSeq(calls[c].params, IsDefined)
            IN  /\ r.kind = "multipart" =>
                    /\ \A h \in r.headers : h[1] # "Content-Type"
                    /\ Len(r.entries) = Len(kept)
                    /\ \A i \in 1..Len(kept) :
                            r.entries[i] = <<kept[i][1], FormValue(kept[i][2])>>
                /\ r.kind = "json" =>
                    /\ r.headers = {<<"Content-Type", "application/json">>}
                    /\ Len(r.entries) = Len(sent)
                    /\ \A i \in 1..Len(sent) :
                            r.entries[i] = <<sent[i][1], JsonText(sent[i][2])>>
                    /\ calls[c].params = <<>> => r.entries = <<>>

\* A photo upload in flight, its undefined caption and null parse_mode left
\* out of the form, next to a call without parameters whose body is {}.
C27_Witness ==
    \E c, d \in CallIds :
        /\ InFlight(c)
        /\ calls[c].req.kind = "multipart"
        /\ Len(calls[c].params) = 5
        /\ calls[c].req.entries =
                << <<"chat_id", [t |-> "text", v |-> <<"123456789">>]>>,
                   <<"photo", [t |-> "file", v |-> <<"photo.jpg">>]>>,
                   <<"reply_markup", [t |-> "text", v |-> <<"{", "inline_keyboard", "}">>]>> >>
        /\ InFlight(d)
        /\ calls[d].req.kind = "json"
        /\ calls[d].params = <<>>
        /\ calls[d].req.entries = <<>>


\* The caller's parameter object is as it was passed.
ParamsIntact ==
    \A c \in CallIds :
        /\ calls[c].params = calls[c].given
        /\ ~calls[c].mutated

ConfigFrame ==
    [][/\ config'.baseUrl = config.baseUrl
       /\ config'.timeout = config.timeout
       /\ (calls' # calls \/ masked' # masked) => config' = config
       /\ \A c \in CallIds :
            InFlight(c) /\ InFlight(c)' =>
                /\ calls'[c].params = calls[c].params
                /\ calls'[c].given = calls[c].given]_vars

\* C28: no step changes config.baseUrl or config.timeout; a step of an API call
\* or of getBotTokenMasked leaves the whole configuration as it is; the
\* parameter object of a call is, while the call is in flight and when it
\* completes, what the caller passed.
C28_Frame == []ParamsIntact /\ ConfigFrame

\* After a rotation of the token, a read of the masked token and a completed
\* call, the client has the base URL and the timeout it was constructed with.
C28_Witness ==
    /\ Done(1)
    /\ masked.called
    /\ config.botToken # ctorArg.botToken.v
    /\ config.timeout = 5000
    /\ config.baseUrl = CustomBaseUrl
    /\ ~calls[1].mutated


=============================================================================
